---------------------------- MODULE Spec2Model ----------------------------
(***************************************************************************)
(* Electronic Hardware Dealer API (src/main.py, src/schemas.py): signup /  *)
(* login, categories, products and orders over a document store.           *)
(*                                                                         *)
(* Conventions of the model                                                *)
(*   - a collection is the sequence of its documents in insertion order    *)
(*     (nothing is ever updated or deleted, so this is the store's natural *)
(*     order);                                                             *)
(*   - an Optional[T] value is a sequence of length 0 (None) or 1;         *)
(*   - a string whose characters matter (category ids, product names, the  *)
(*     search pattern q) is a sequence of one-character strings; a string  *)
(*     that is only compared for equality is a TLA+ string;                *)
(*   - every handler answers through `response`: the operation, its        *)
(*     request, the HTTP status and the body (detail on an error).         *)
(***************************************************************************)
EXTENDS Integers, Sequences, FiniteSets, TLC

VARIABLES db, user, category, product, order, inflight, response, signups,
          overlapped, lastList

vars == <<db, user, category, product, order, inflight, response, signups,
          overlapped, lastList>>

collections == <<user, category, product, order>>

(***************************************************************************)
(* Bounds of the model                                                     *)
(***************************************************************************)
NumWorkers == 2
MaxUsers == 3
MaxCategories == 3
MaxProducts == 2
MaxOrders == 1
MaxItems == 2
MaxDocs == 3

(***************************************************************************)
(* Optional values and identifiers                                         *)
(***************************************************************************)
None == <<>>
Some(x) == <<x>>

\* Python truthiness of an Optional[str]: None and "" are falsy.
Truthy(o) == o # None /\ o[1] # <<>>

\* The store assigns a fresh ObjectId to every inserted document.
NewObjectId(name, coll) == [coll |-> name, n |-> Len(coll) + 1]

\* An ObjectId prints as OidLen hexadecimal characters.
OidLen == 24

HexDigits == {"0", "1", "2", "3", "4", "5", "6", "7", "8", "9",
              "a", "b", "c", "d", "e", "f", "A", "B", "C", "D", "E", "F"}

DecimalDigits == <<"0", "1", "2", "3", "4", "5", "6", "7", "8", "9">>

Digit(d) == DecimalDigits[d + 1]

CollectionTag(name) ==
    CASE name = "user" -> "a"
      [] name = "category" -> "b"
      [] name = "product" -> "c"
      [] name = "order" -> "d"

\* str(ObjectId): the identifier's text, one text per identifier: the
\* collection's tag, zeros, and the document's number in three digits.
Str(oid) ==
    <<CollectionTag(oid.coll)>> \o [i \in 1 .. (OidLen - 4) |-> "0"]
        \o <<Digit(oid.n \div 100), Digit((oid.n \div 10) % 10), Digit(oid.n % 10)>>

\* ObjectId(s) of a string: accepted iff s is OidLen hexadecimal characters.
ObjectId_accepts(s) == Len(s) = OidLen /\ \A i \in 1 .. Len(s) : s[i] \in HexDigits

Workers == 1 .. NumWorkers

(***************************************************************************)
(* Document Store Adapter (database.py)                                    *)
(***************************************************************************)
\* create_document(collection_name, data): the collection after the insert.
create_document(name, coll, data) ==
    Append(coll, [_id |-> NewObjectId(name, coll)] @@ data)

\* the identifier create_document returns, as a string
inserted_id(name, coll) == Str(NewObjectId(name, coll))

(***************************************************************************)
(* Schemas and requests of the auth handlers                               *)
(***************************************************************************)
Names == {"Ann"}
Emails == {"a@x.io", "b@x.io"}
Passwords == {"pw1", "pw2"}

SignupRequest == [name : Names, email : Emails, password : Passwords]
LoginRequest == [email : Emails, password : Passwords]

User(name, email, hashed_password) ==
    [name |-> name, email |-> email, hashed_password |-> hashed_password,
     role |-> "customer", is_active |-> TRUE]

HTTPException(op, req, status_code, detail) ==
    [op |-> op, req |-> req, status |-> status_code, body |-> detail]

Ok(op, req, body) == [op |-> op, req |-> req, status |-> 200, body |-> body]

NotConfigured(op, req) == HTTPException(op, req, 500, "Database not configured")

RECURSIVE FirstMatch(_, _, _)
FirstMatch(coll, email, i) ==
    IF i > Len(coll) THEN None
    ELSE IF coll[i].email = email THEN Some(coll[i])
    ELSE FirstMatch(coll, email, i + 1)

\* db["user"].find_one({"email": email}): the first matching document or None
find_one(coll, email) == FirstMatch(coll, email, 1)

(***************************************************************************)
(* POST /auth/signup: the lookup and the insert are two store calls, and   *)
(* the runtime serves requests on several workers.                         *)
(***************************************************************************)
\* Variant: the lookup also compares the password.
signup_existing_by_credentials(payload) ==
    LET found == find_one(user, payload.email)
    IN IF found # None /\ found[1].hashed_password = payload.password
       THEN found ELSE None

\* Variant: no existence lookup at all.
signup_existing_skipped(payload) == None

signup_existing(payload) == find_one(user, payload.email)

signup_lookup(w, payload) ==
    /\ inflight[w] = None
    /\ overlapped' = (overlapped \/ \E v \in Workers \ {w} : inflight[v] # None)
    /\ IF ~db
       THEN /\ response' = NotConfigured("signup", payload)
            /\ UNCHANGED inflight
       ELSE IF signup_existing(payload) # None
       THEN /\ response' = HTTPException("signup", payload, 400,
                                         "Email already registered")
            /\ UNCHANGED inflight
       ELSE /\ inflight' = [inflight EXCEPT ![w] = Some(payload)]
            /\ UNCHANGED response
    /\ UNCHANGED <<db, user, category, product, order, signups, lastList>>

signup_insert(w) ==
    /\ inflight[w] # None
    /\ LET payload == inflight[w][1]
           doc == User(payload.name, payload.email, payload.password)
           user_id == inserted_id("user", user)
       IN /\ user' = create_document("user", user, doc)
          /\ response' = Ok("signup", payload,
                            [user_id |-> user_id, email |-> payload.email])
          /\ signups' = signups \cup
                 {[email |-> payload.email, password |-> payload.password,
                   user_id |-> user_id]}
    /\ inflight' = [inflight EXCEPT ![w] = None]
    /\ lastList' = None
    /\ UNCHANGED <<db, category, product, order, overlapped>>

(***************************************************************************)
(* POST /auth/login                                                        *)
(***************************************************************************)
login_rejects(found, payload) ==
    found = None \/ found[1].hashed_password # payload.password

\* Variant: an unknown email is told apart from a wrong password.
login_response_leaky(payload) ==
    LET found == find_one(user, payload.email)
    IN IF found = None
       THEN HTTPException("login", payload, 404, "User not found")
       ELSE IF found[1].hashed_password # payload.password
       THEN HTTPException("login", payload, 401, "Invalid credentials")
       ELSE Ok("login", payload,
               [user_id |-> Str(found[1]._id), name |-> found[1].name,
                email |-> found[1].email])

login_response(payload) ==
    LET found == find_one(user, payload.email)
    IN IF login_rejects(found, payload)
       THEN HTTPException("login", payload, 401, "Invalid credentials")
       ELSE Ok("login", payload,
               [user_id |-> Str(found[1]._id), name |-> found[1].name,
                email |-> found[1].email])

login(payload) ==
    /\ response' = IF ~db THEN NotConfigured("login", payload)
                   ELSE login_response(payload)
    /\ UNCHANGED <<db, user, category, product, order, inflight, signups,
                   overlapped, lastList>>

(***************************************************************************)
(* get_documents(collection_name, filter_dict, limit) of the store adapter *)
(***************************************************************************)
\* limit of get_documents when the caller passes none
DefaultLimit == 100

Lower(c) == CASE c = "A" -> "a" [] c = "B" -> "b" [] OTHER -> c

\* {"$regex": q, "$options": "i"}: q is a regular expression searched
\* anywhere in the text, letters matched in any case. Of the regular
\* expression syntax the model has literal characters and ".", which
\* matches any one character.
regex_matches_at(q, text, at) ==
    \A i \in 1 .. Len(q) : q[i] = "." \/ Lower(q[i]) = Lower(text[at + i])

regex_search(q, text) ==
    \E at \in 0 .. (Len(text) - Len(q)) : regex_matches_at(q, text, at)

\* a document matches a filter when every key the filter holds matches
filter_matches(doc, filter_dict) ==
    /\ filter_dict.category_id # None
          => doc.category_id = filter_dict.category_id[1]
    /\ filter_dict.subcategory_id # None
          => doc.subcategory_id = filter_dict.subcategory_id
    /\ filter_dict.name # None => regex_search(filter_dict.name[1], doc.name)

\* collection.find(filter_dict or {}): the matching documents in the store's
\* natural order
find(coll, filter_dict) ==
    SelectSeq(coll, LAMBDA doc :
                       filter_dict = None \/ filter_matches(doc, filter_dict[1]))

get_documents(coll, filter_dict, limit) ==
    LET found == find(coll, filter_dict)
    IN SubSeq(found, 1, IF Len(found) < limit THEN Len(found) ELSE limit)

\* c["_id"] = str(c["_id"]) on a retrieved document
stringify(doc) == [doc EXCEPT !._id = Str(@)]

(***************************************************************************)
(* Categories                                                              *)
(***************************************************************************)
CategoryNames == {"Cables"}

\* identifiers of the first two categories, and one no category ever gets
CategoryId(n) == Str([coll |-> "category", n |-> n])
ParentIds == {None, Some(CategoryId(1)), Some(CategoryId(2)), Some(CategoryId(999))}

Category(name, parent_id, description) ==
    [name |-> name, parent_id |-> parent_id, description |-> description]

CategoryRequest == {Category(n, parent, None) : n \in CategoryNames, parent \in ParentIds}

\* by_parent.setdefault(parent, []).append(c)
setdefault_append(by_parent, parent, c) ==
    IF parent \in DOMAIN by_parent
    THEN [by_parent EXCEPT ![parent] = Append(@, c)]
    ELSE by_parent @@ (parent :> <<c>>)

\* for c in cats: c["_id"] = str(c["_id"]); parent = c.get("parent_id");
\*                by_parent.setdefault(parent, []).append(c)
\* over cats[lo .. hi] in order: the first half, then the second half on its
\* result, which keeps the evaluation shallow on a long list. The test on
\* `first` holds after every append and makes TLC compute it there.
RECURSIVE build_hierarchy(_, _, _, _)
build_hierarchy(cats, lo, hi, by_parent) ==
    IF lo > hi THEN by_parent
    ELSE IF lo = hi
    THEN LET c == stringify(cats[lo])
             parent == c.parent_id
         IN setdefault_append(by_parent, parent, c)
    ELSE LET mid == (lo + hi) \div 2
             first == build_hierarchy(cats, lo, mid, by_parent)
         IN IF DOMAIN first # {}
            THEN build_hierarchy(cats, mid + 1, hi, first)
            ELSE first

\* an empty dict
EmptyDict == [k \in {} |-> <<>>]

\* Variant: the listed documents are taken out of the collection.
list_categories_takes ==
    /\ IF ~db
       THEN /\ response' = NotConfigured("list_categories", None)
            /\ UNCHANGED <<category, lastList>>
       ELSE LET cats == get_documents(category, None, DefaultLimit)
                by_parent == build_hierarchy(cats, 1, Len(cats), EmptyDict)
            IN /\ response' = Ok("list_categories", None, by_parent)
               /\ lastList' = Some([op |-> "list_categories", req |-> None,
                                    body |-> by_parent])
               /\ category' = SubSeq(category, Len(cats) + 1, Len(category))
    /\ UNCHANGED <<db, user, product, order, inflight, signups, overlapped>>

list_categories ==
    /\ IF ~db
       THEN /\ response' = NotConfigured("list_categories", None)
            /\ UNCHANGED lastList
       ELSE LET cats == get_documents(category, None, DefaultLimit)
                by_parent == build_hierarchy(cats, 1, Len(cats), EmptyDict)
            IN /\ response' = Ok("list_categories", None, by_parent)
               /\ lastList' = Some([op |-> "list_categories", req |-> None,
                                    body |-> by_parent])
    /\ UNCHANGED <<db, user, category, product, order, inflight, signups,
                   overlapped>>

create_category(cat) ==
    /\ IF ~db
       THEN /\ response' = NotConfigured("create_category", cat)
            /\ UNCHANGED <<category, lastList>>
       ELSE /\ category' = create_document("category", category, cat)
            /\ response' = Ok("create_category", cat,
                              [id |-> inserted_id("category", category)])
            /\ lastList' = None
    /\ UNCHANGED <<db, user, product, order, inflight, signups, overlapped>>

(***************************************************************************)
(* Products                                                                *)
(***************************************************************************)
Empty == <<>>
NotAValidId == <<"n", "o", "t", "-", "a", "-", "v", "a", "l", "i", "d", "-", "i", "d">>
NonHexId == [i \in 1 .. OidLen |-> "z"]
ShortHexId == [i \in 1 .. (OidLen - 1) |-> "0"]

ProductNames == {<<"A", "b">>, <<"b">>}
Prices == {-1, 2}
RequestedCategoryIds == {Empty, NotAValidId, NonHexId, ShortHexId, CategoryId(1)}
SubcategoryIds == {None, Some(CategoryId(2))}

Product(name, price, category_id, subcategory_id, stock_qty) ==
    [name |-> name, description |-> None, price |-> price, sku |-> None,
     image_url |-> None, category_id |-> category_id,
     subcategory_id |-> subcategory_id, in_stock |-> TRUE,
     stock_qty |-> stock_qty]

\* requests the handler stores, and one request for each way to be refused
ProductRequest ==
    {Product(n, 2, c, sc, None) : n \in ProductNames, c \in {Empty, CategoryId(1)},
                                  sc \in SubcategoryIds}
      \cup {Product(<<"b">>, 2, c, None, None) : c \in RequestedCategoryIds}
      \cup {Product(<<"b">>, pr, CategoryId(1), None, None) : pr \in Prices}

\* the constraints of the Product schema
Product_valid(prod) ==
    /\ prod.price >= 0
    /\ prod.stock_qty # None => prod.stock_qty[1] >= 0

ValidationError(op, req) == HTTPException(op, req, 422, "validation error")

\* if prod.category_id: try ObjectId(prod.category_id) except: raise 400
category_id_rejected(prod) ==
    prod.category_id # Empty /\ ~ObjectId_accepts(prod.category_id)

create_product(prod) ==
    /\ IF ~Product_valid(prod)
       THEN /\ response' = ValidationError("create_product", prod)
            /\ UNCHANGED <<product, lastList>>
       ELSE IF ~db
       THEN /\ response' = NotConfigured("create_product", prod)
            /\ UNCHANGED <<product, lastList>>
       ELSE IF category_id_rejected(prod)
       THEN /\ response' = HTTPException("create_product", prod, 400,
                                         "Invalid category_id")
            /\ UNCHANGED <<product, lastList>>
       ELSE /\ product' = create_document("product", product, prod)
            /\ response' = Ok("create_product", prod,
                              [id |-> inserted_id("product", product)])
            /\ lastList' = None
    /\ UNCHANGED <<db, user, category, order, inflight, signups, overlapped>>

Queries == {None, Some(<<>>), Some(<<"a">>), Some(<<".">>), Some(<<"a", "B">>)}
\* limit of GET /products when the query gives none
ListDefaultLimit == 100
Limits == {1, ListDefaultLimit}
ListedCategoryIds == {None, Some(Empty), Some(CategoryId(1))}

ProductQuery ==
    [category_id : ListedCategoryIds, subcategory_id : SubcategoryIds,
     q : Queries, limit : Limits]

\* filter_dict: only the truthy parameters become keys of the filter
filter_dict_of(params) ==
    [category_id |-> IF Truthy(params.category_id) THEN params.category_id ELSE None,
     subcategory_id |-> IF Truthy(params.subcategory_id)
                        THEN params.subcategory_id ELSE None,
     name |-> IF Truthy(params.q) THEN params.q ELSE None]

list_products_result(params) ==
    LET prods == get_documents(product, Some(filter_dict_of(params)), params.limit)
    IN [i \in 1 .. Len(prods) |-> stringify(prods[i])]

list_products(params) ==
    /\ IF ~db
       THEN /\ response' = NotConfigured("list_products", params)
            /\ UNCHANGED lastList
       ELSE /\ response' = Ok("list_products", params, list_products_result(params))
            /\ lastList' = Some([op |-> "list_products", req |-> params,
                                 body |-> list_products_result(params)])
    /\ UNCHANGED <<db, user, category, product, order, inflight, signups,
                   overlapped>>

(***************************************************************************)
(* Orders                                                                  *)
(***************************************************************************)
OrderItem(product_id, name, quantity, unit_price) ==
    [product_id |-> product_id, name |-> name, quantity |-> quantity,
     unit_price |-> unit_price]

\* line items: two that the OrderItem schema refuses, two that it accepts
Items ==
    {OrderItem("p", "Cable", qp[1], qp[2]) :
        qp \in {<<0, 3>>, <<1, -1>>, <<1, 0>>, <<2, 3>>}}

ItemLists == UNION {[1 .. n -> Items] : n \in 0 .. MaxItems}

PlaceOrderRequest(items) ==
    [user_id |-> "u1", email |-> "a@x.io", items |-> items, notes |-> None,
     shipping_name |-> None, shipping_address |-> None, shipping_phone |-> None]

OrderRequest == {PlaceOrderRequest(items) : items \in ItemLists}

\* the constraints of the OrderItem schema
OrderItem_valid(item) == item.quantity >= 1 /\ item.unit_price >= 0

\* the constraints of PlaceOrderRequest: items is a List[OrderItem]
PlaceOrderRequest_valid(payload) ==
    \A i \in 1 .. Len(payload.items) : OrderItem_valid(payload.items[i])

Order(payload, subtotal, tax, total) ==
    [user_id |-> payload.user_id, email |-> payload.email,
     items |-> payload.items, subtotal |-> subtotal, tax |-> tax,
     total |-> total, status |-> "placed", notes |-> payload.notes,
     shipping_name |-> payload.shipping_name,
     shipping_address |-> payload.shipping_address,
     shipping_phone |-> payload.shipping_phone]

\* the constraints of the Order schema
Order_valid(o) == o.subtotal >= 0 /\ o.tax >= 0 /\ o.total >= 0

\* Variant: the quantity is left out of the line total.
line_total_unit_price(item) == item.unit_price

line_total(item) == item.quantity * item.unit_price

RECURSIVE sum(_, _)
\* sum(i.quantity * i.unit_price for i in items)
sum(items, i) ==
    IF i > Len(items) THEN 0 ELSE line_total(items[i]) + sum(items, i + 1)

place_order(payload) ==
    /\ IF ~PlaceOrderRequest_valid(payload)
       THEN /\ response' = ValidationError("place_order", payload)
            /\ UNCHANGED <<order, lastList>>
       ELSE IF ~db
       THEN /\ response' = NotConfigured("place_order", payload)
            /\ UNCHANGED <<order, lastList>>
       ELSE LET subtotal == sum(payload.items, 1)
                tax == 0
                total == subtotal + tax
                doc == Order(payload, subtotal, tax, total)
            IN IF ~Order_valid(doc)
               THEN /\ response' = HTTPException("place_order", payload, 500,
                                                 "Internal Server Error")
                    /\ UNCHANGED <<order, lastList>>
               ELSE /\ order' = create_document("order", order, doc)
                    /\ response' = Ok("place_order", payload,
                                      [order_id |-> inserted_id("order", order),
                                       total |-> total])
                    /\ lastList' = None
    /\ UNCHANGED <<db, user, category, product, inflight, signups, overlapped>>

(***************************************************************************)
(* Specifications                                                          *)
(***************************************************************************)
Init ==
    /\ db \in BOOLEAN
    /\ user = <<>>
    /\ category = <<>>
    /\ product = <<>>
    /\ order = <<>>
    /\ inflight = [w \in Workers |-> None]
    /\ response = [op |-> "root", req |-> None, status |-> 200,
                   body |-> "Electronic Hardware Dealer API"]
    /\ signups = {}
    /\ overlapped = FALSE
    /\ lastList = None

\* The auth handlers, signups on NumWorkers workers.
NextAuth ==
    \/ \E w \in Workers, payload \in SignupRequest : signup_lookup(w, payload)
    \/ \E w \in Workers : Len(user) < MaxUsers /\ signup_insert(w)
    \/ \E payload \in LoginRequest : login(payload)

SpecAuth == Init /\ [][NextAuth]_vars

\* The product handlers.
NextProducts ==
    \/ \E prod \in ProductRequest :
          (Len(product) < MaxProducts \/ ~Product_valid(prod)
             \/ category_id_rejected(prod) \/ ~db) /\ create_product(prod)
    \/ \E params \in ProductQuery : list_products(params)

SpecProducts == Init /\ [][NextProducts]_vars

\* The category handlers on a store that already holds DefaultLimit - 1
\* categories.
\* the category collection after n calls of create_category
Preloaded(n) ==
    [i \in 1 .. n |->
        [_id |-> [coll |-> "category", n |-> i]] @@ Category("Bulk", None, None)]

InitBulk ==
    /\ db = TRUE
    /\ user = <<>>
    /\ category = Preloaded(DefaultLimit - 1)
    /\ product = <<>>
    /\ order = <<>>
    /\ inflight = [w \in Workers |-> None]
    /\ response = [op |-> "root", req |-> None, status |-> 200,
                   body |-> "Electronic Hardware Dealer API"]
    /\ signups = {}
    /\ overlapped = FALSE
    /\ lastList = None

NextCategories ==
    \/ \E cat \in CategoryRequest :
          Len(category) < (DefaultLimit - 1) + MaxCategories /\ create_category(cat)
    \/ list_categories

SpecCategories == InitBulk /\ [][NextCategories]_vars

\* The order handler on a store that holds a user and a product or none.
SeedUser == create_document("user", <<>>, User("Ann", "a@x.io", "pw1"))
SeedProduct ==
    create_document("product", <<>>,
                    Product(<<"b">>, 2, CategoryId(1), None, Some(5)))

InitOrders ==
    /\ db \in BOOLEAN
    /\ \/ user = <<>> /\ product = <<>>
       \/ db /\ user = SeedUser /\ product = SeedProduct
    /\ category = <<>>
    /\ order = <<>>
    /\ inflight = [w \in Workers |-> None]
    /\ response = [op |-> "root", req |-> None, status |-> 200,
                   body |-> "Electronic Hardware Dealer API"]
    /\ signups = IF user = <<>> THEN {}
                 ELSE {[email |-> "a@x.io", password |-> "pw1",
                        user_id |-> Str(user[1]._id)]}
    /\ overlapped = FALSE
    /\ lastList = None

NextOrders ==
    \E payload \in OrderRequest :
        (Len(order) < MaxOrders \/ ~PlaceOrderRequest_valid(payload) \/ ~db)
            /\ place_order(payload)

SpecOrders == InitOrders /\ [][NextOrders]_vars

\* The whole API, every handler on a few requests each, the store capped at
\* MaxDocs documents.
TotalDocs == Len(user) + Len(category) + Len(product) + Len(order)

CoreSignup == {r \in SignupRequest : r.email = "a@x.io"}
CoreLogin == {r \in LoginRequest : r.email = "a@x.io"}
CoreCategory == {Category("Cables", None, None),
                 Category("Cables", Some(CategoryId(1)), None)}
CoreProduct == {Product(<<"b">>, 2, CategoryId(1), None, Some(5)),
                Product(<<"A", "b">>, 2, NotAValidId, None, None)}
CoreQuery == {[category_id |-> None, subcategory_id |-> None, q |-> None,
               limit |-> ListDefaultLimit],
              [category_id |-> Some(CategoryId(1)), subcategory_id |-> None,
               q |-> Some(<<"B">>), limit |-> 1]}
CoreOrder == {PlaceOrderRequest(<<>>),
              PlaceOrderRequest(<<OrderItem("p", "Cable", 2, 3),
                                  OrderItem("p", "Cable", 1, 0)>>)}

Next ==
    \/ \E w \in Workers, payload \in CoreSignup : signup_lookup(w, payload)
    \/ \E w \in Workers :
          TotalDocs < MaxDocs /\ Len(user) < MaxUsers /\ signup_insert(w)
    \/ \E payload \in CoreLogin : login(payload)
    \/ \E cat \in CoreCategory :
          TotalDocs < MaxDocs /\ Len(category) < MaxCategories
             /\ create_category(cat)
    \/ list_categories
    \/ \E prod \in CoreProduct :
          (category_id_rejected(prod) \/ ~db
             \/ (TotalDocs < MaxDocs /\ Len(product) < MaxProducts))
             /\ create_product(prod)
    \/ \E params \in CoreQuery : list_products(params)
    \/ \E payload \in CoreOrder :
          (~db \/ (TotalDocs < MaxDocs /\ Len(order) < MaxOrders))
             /\ place_order(payload)

Spec == Init /\ [][Next]_vars

(***************************************************************************)
(* Properties of the auth handlers                                         *)
(***************************************************************************)
EmailRegistered(email) == \E i \in 1 .. Len(user) : user[i].email = email

SharedEmail ==
    \E i, j \in 1 .. Len(user) : i # j /\ user[i].email = user[j].email

\* C1: a signup that succeeded with user_id u makes every later login with
\* the same email and password succeed and return user_id u.
C1_LoginAfterSignup ==
    (db /\ response.op = "login") =>
        \A s \in signups :
            (s.email = response.req.email /\ s.password = response.req.password)
                => (response.status = 200 /\ response.body.user_id = s.user_id)

\* C2: a signup whose email is already the email of a User document fails
\* with 400 'Email already registered' whatever the name and password, and
\* inserts nothing.
C2_DuplicateEmailRejected ==
    [][\A w \in Workers, payload \in SignupRequest :
          (db /\ EmailRegistered(payload.email) /\ signup_lookup(w, payload))
              => /\ response' = HTTPException("signup", payload, 400,
                                              "Email already registered")
                 /\ user' = user
                 /\ inflight'[w] = None]_vars

\* C2 witness: a signup was rejected although its password differs from the
\* registered one.
C2_Witness ==
    /\ response.op = "signup"
    /\ response.status = 400
    /\ \E i \in 1 .. Len(user) :
          /\ user[i].email = response.req.email
          /\ user[i].hashed_password # response.req.password

\* C3: as long as signups ran one at a time no two User documents share an
\* email; with two signups in flight together the duplicate is reachable
\* (C3_Witness).
C3_SerialSignupsKeepEmailsUnique == ~overlapped => ~SharedEmail

\* C3 witness: two signups for one email both succeeded and the collection
\* holds two User documents with that email.
C3_Witness ==
    /\ overlapped
    /\ SharedEmail
    /\ \E s, t \in signups : s.email = t.email /\ s.user_id # t.user_id
    /\ \A w \in Workers : inflight[w] = None

\* C4: a failed login answers 401 'Invalid credentials' both for an unknown
\* email and for a wrong password, and login leaves the user collection as
\* it was.
C4_LoginFailureUniform ==
    [][\A payload \in LoginRequest :
          (db /\ login(payload))
              => /\ user' = user
                 /\ (response'.status # 200 =>
                        /\ response'.status = 401
                        /\ response'.body = "Invalid credentials")
                 /\ \A other \in LoginRequest :
                        (login_rejects(find_one(user, payload.email), payload)
                         /\ login_rejects(find_one(user, other.email), other))
                            => /\ login_response(other).status = response'.status
                               /\ login_response(other).body = response'.body]_vars

\* C4 witness: two failed logins whose causes differ: the answered one had a
\* wrong password, and an unknown email is available for the other cause.
C4_Witness ==
    /\ response.op = "login"
    /\ response.status = 401
    /\ EmailRegistered(response.req.email)
    /\ \E e \in Emails : ~EmailRegistered(e)


(***************************************************************************)
(* Properties of the order handler                                         *)
(***************************************************************************)
\* C5: every persisted Order has at least one item, each with quantity >= 1
\* and unit_price >= 0, and a request whose items violate this, the empty
\* list included, is refused as a validation fault.
C5_OrdersHaveValidItems ==
    db =>
       /\ \A i \in 1 .. Len(order) :
             /\ Len(order[i].items) >= 1
             /\ \A k \in 1 .. Len(order[i].items) :
                   /\ order[i].items[k].quantity >= 1
                   /\ order[i].items[k].unit_price >= 0
       /\ (response.op = "place_order"
             /\ (response.req.items = <<>>
                   \/ ~PlaceOrderRequest_valid(response.req)))
             => response.status = 422

\* the sum of quantity * unit_price over the items, from the last item back
RECURSIVE ItemsTotal(_)
ItemsTotal(items) ==
    IF items = <<>> THEN 0
    ELSE ItemsTotal(SubSeq(items, 1, Len(items) - 1))
           + items[Len(items)].quantity * items[Len(items)].unit_price

\* C6: an accepted order request persists exactly one Order document with
\* subtotal = sum of quantity * unit_price, tax = 0, total = subtotal + tax,
\* the returned total is the stored one, and the user and product
\* collections are unchanged.
C6_OrderTotals ==
    [][(response'.op = "place_order" /\ response'.status = 200
          /\ place_order(response'.req))
          => /\ Len(order') = Len(order) + 1
             /\ SubSeq(order', 1, Len(order)) = order
             /\ LET doc == order'[Len(order')]
                IN /\ doc.items = response'.req.items
                   /\ doc.subtotal = ItemsTotal(response'.req.items)
                   /\ doc.tax = 0
                   /\ doc.total = doc.subtotal + doc.tax
                   /\ doc.total >= 0
                   /\ response'.body.total = doc.total
                   /\ response'.body.order_id = Str(doc._id)
             /\ user' = user
             /\ product' = product
             /\ category' = category]_vars

\* C6 witness: a two-item order with a positive total was accepted on a store
\* that holds a user and a product with a stock_qty.
C6_Witness ==
    /\ response.op = "place_order"
    /\ response.status = 200
    /\ Len(response.req.items) = 2
    /\ response.body.total > 0
    /\ order # <<>>
    /\ order[Len(order)].total = response.body.total
    /\ user # <<>>
    /\ product # <<>>
    /\ product[1].stock_qty # None

(***************************************************************************)
(* Properties of the catalog handlers                                      *)
(***************************************************************************)
\* C7: create_product with a category_id that is no well-formed identifier
\* (the empty string included) fails with 400 'Invalid category_id', and
\* every stored product has a well-formed category_id.
C7_CategoryIdWellFormed ==
    /\ \A i \in 1 .. Len(product) : ObjectId_accepts(product[i].category_id)
    /\ (db /\ response.op = "create_product" /\ Product_valid(response.req)
          /\ ~ObjectId_accepts(response.req.category_id))
          => (response.status = 400 /\ response.body = "Invalid category_id")

\* C8: the listing holds every Category document of the store exactly once,
\* under the key of its own parent_id, in retrieval order within the group.
C8_EveryCategoryUnderItsParent ==
    (response.op = "list_categories" /\ response.status = 200) =>
        LET all == [i \in 1 .. Len(category) |-> stringify(category[i])]
            keys == {all[i].parent_id : i \in 1 .. Len(all)}
        IN /\ DOMAIN response.body = keys
           /\ \A k \in keys :
                 response.body[k] = SelectSeq(all, LAMBDA c : c.parent_id = k)

\* text contains part, letters compared in any case
ContainsIgnoreCase(text, part) ==
    \E at \in 0 .. (Len(text) - Len(part)) :
        \A i \in 1 .. Len(part) : Lower(text[at + i]) = Lower(part[i])

\* product p satisfies every parameter of the query that was provided
Satisfies(p, params) ==
    /\ Truthy(params.category_id) => p.category_id = params.category_id[1]
    /\ Truthy(params.subcategory_id) => p.subcategory_id = params.subcategory_id
    /\ Truthy(params.q) => ContainsIgnoreCase(p.name, params.q[1])

\* C9: list_products returns only products that satisfy every provided
\* parameter (q as a substring in any letter-case), at most limit of them,
\* and every matching product when there are no more than limit.
C9_ListReturnsMatches ==
    (response.op = "list_products" /\ response.status = 200) =>
        LET params == response.req
            all == [i \in 1 .. Len(product) |-> stringify(product[i])]
            matching == SelectSeq(all, LAMBDA p : Satisfies(p, params))
        IN /\ \A i \in 1 .. Len(response.body) : Satisfies(response.body[i], params)
           /\ Len(response.body) <= params.limit
           /\ Len(matching) <= params.limit => response.body = matching

(***************************************************************************)
(* Properties of the whole API                                             *)
(***************************************************************************)
Grows(before, after) ==
    Len(after) >= Len(before) /\ SubSeq(after, 1, Len(before)) = before

=============================================================================
